---- MODULE Spec2Model ----
(***************************************************************************)
(* Model of runtime.Runtime.ExecuteTransaction (src/runtime/runtime.go):   *)
(* precheck, energy pre-debit, checkpoint, clause loop with gas/refund     *)
(* accounting, rollback on clause failure, energy settlement and receipt.  *)
(* Also modelled: rt.execute's dispatch as reached from rt.Call and        *)
(* rt.StaticCall, commonTo called on its own (CommonToSpec), and           *)
(* types.ConvertReceipt applied to the returned receipt.                   *)
(* The interpreter (vm), the world state (state), the energy contract      *)
(* (contracts.Energy) and the transaction accessors (tx) are collaborators *)
(* outside runtime.go; they are modelled at their interface.               *)
(***************************************************************************)
EXTENDS Integers, Sequences, FiniteSets

(* ------------------------------ bounds --------------------------------- *)
\* uint64 is modelled as an unsigned word of WordBits bits (TLC integers are
\* 32 bit); every gas value drawn below fits in the word.
WordBits == 3
MaxGas == 2
MaxIntrinsic == 1
MaxGasPrice == 2
MaxRefund == 1
MaxClauses == 2
MaxEnergy == 6
MaxHintClauses == 4

(* --------------------------- basic values ------------------------------ *)
\* a nil pointer / nil slice element
Nil == [nil |-> TRUE]
\* thor.Address{}: the empty address
ZeroAddr == "0x0"
\* clause.To() == nil
NoTo == "nil"
Accounts == {"A", "B"}
\* the result of a helper that has not been called yet
NotCalled == "pending"
Keys == {"k1"}

WordMod == 2 ^ WordBits
\* uint64 subtraction and addition, wrapping
Sub64(a, b) == (a - b + WordMod) % WordMod
Add64(a, b) == (a + b) % WordMod

Min(a, b) == IF a <= b THEN a ELSE b

RECURSIVE SeqsUpTo(_, _)
SeqsUpTo(S, n) ==
    IF n = 0 THEN {<<>>}
    ELSE LET shorter == SeqsUpTo(S, n - 1)
         IN  shorter \cup {Append(s, e) : s \in {t \in shorter : Len(t) = n - 1}, e \in S}

(* ---------------------------- transactions ----------------------------- *)
Clauses == [To : {NoTo, "B"}]

\* tx.Signer(): the origin, or an error
SignerResults == {[ok |-> FALSE, origin |-> ZeroAddr], [ok |-> TRUE, origin |-> "A"]}
\* tx.IntrinsicGas(): the intrinsic gas, or an error
IntrinsicResults == {[ok |-> FALSE, gas |-> 0]} \cup [ok : {TRUE}, gas : {0, MaxIntrinsic}]

Transactions ==
    [Signer : SignerResults, IntrinsicGas : IntrinsicResults,
     Gas : 0..MaxGas, GasPrice : {1, MaxGasPrice},
     Clauses : SeqsUpTo(Clauses, MaxClauses)]

(* ----------------------------- interpreter ----------------------------- *)
\* log data is a sequence of bytes
Log1 == [Address |-> "B", Topics |-> <<"t1", "t2">>, Data |-> <<1, 171>>]
Log2 == [Address |-> "A", Topics |-> <<>>, Data |-> <<>>]

\* what the interpreter did to the world state during one call: a creation
\* stores the new contract, a call moves energy or leaves the state alone
Effects(clause) ==
    IF clause.To = NoTo THEN {"sstore"} ELSE {"none", "transfer"}

\* the logs the called code emits: none by an idle call, two by a storing
\* call, one by a transferring call
LogsOf(eff) ==
    CASE eff = "sstore" -> <<Log1, Log2>>
      [] eff = "transfer" -> <<Log2>>
      [] OTHER -> <<>>

\* vm.Output of a call that was given `gas` and had effect `eff`
VMOutputs(gas, eff) ==
    [LeftOverGas : 0..gas, RefundGas : {0, MaxRefund}, Logs : {LogsOf(eff)}, VMErr : BOOLEAN]

Other(a) == IF a = "A" THEN "B" ELSE "A"

ApplyEffect(st, eff, from, idx) ==
    CASE eff = "sstore" -> [st EXCEPT !.store["k1"] = idx + 1]
      [] eff = "transfer" /\ st.energy[from] >= 1 ->
            [st EXCEPT !.energy[from] = @ - 1, !.energy[Other(from)] = @ + 1]
      [] OTHER -> st

(* ------------------------------ commonTo ------------------------------- *)
\* variant: only the clause next to the first is compared with it
commonToRestShort(clauses, j, firstTo) ==
    IF j > Len(clauses) \/ j > 2 THEN firstTo
    ELSE IF clauses[j].To = NoTo THEN ZeroAddr
    ELSE IF clauses[j].To # firstTo THEN ZeroAddr
    ELSE firstTo

\* lines 222-231: the scan of clauses[1:], from position j on
RECURSIVE commonToRest(_, _, _)
commonToRest(clauses, j, firstTo) ==
    IF j > Len(clauses) THEN firstTo
    ELSE IF clauses[j].To = NoTo THEN ZeroAddr
    ELSE IF clauses[j].To # firstTo THEN ZeroAddr
    ELSE commonToRest(clauses, j + 1, firstTo)

\* lines 212-232
commonTo(clauses) ==
    IF Len(clauses) = 0 THEN ZeroAddr
    ELSE IF clauses[1].To = NoTo THEN ZeroAddr
    ELSE commonToRest(clauses, 2, clauses[1].To)

(* --------------------------- energy contract --------------------------- *)
\* cs.Energy.Consume: the recipient hint pays when it can, else the origin
Consume(st, org, hint, amount) ==
    IF hint \in Accounts /\ hint # org /\ st.energy[hint] >= amount
    THEN [payer |-> hint, ok |-> TRUE, st |-> [st EXCEPT !.energy[hint] = @ - amount]]
    ELSE IF st.energy[org] >= amount
    THEN [payer |-> org, ok |-> TRUE, st |-> [st EXCEPT !.energy[org] = @ - amount]]
    ELSE [payer |-> ZeroAddr, ok |-> FALSE, st |-> st]

GetBalance(st, addr) == st.energy[addr]
SetBalance(st, addr, bal) == [st EXCEPT !.energy[addr] = bal]

(* ----------------------------- world state ----------------------------- *)
\* state.NewCheckpoint: push a copy, the handle is its position
NewCheckpointStack(cps, st) == Append(cps, st)
\* state.RevertTo: restore the copy and drop every checkpoint taken after it
RevertToState(cps, h) == cps[h]
RevertToStack(cps, h) == SubSeq(cps, 1, h)

(* ------------------------------ execute -------------------------------- *)
\* variant: the recipient test comes first and nothing is fatal
executeNoPanic(clause, isStatic) ==
    IF clause.To = NoTo THEN "Create"
    ELSE IF isStatic THEN "StaticCall"
    ELSE "Call"

\* lines 68-71, 98-104: the interpreter entry point rt.execute chooses
execute(clause, isStatic) ==
    IF isStatic /\ clause.To = NoTo THEN "panic"
    ELSE IF clause.To = NoTo THEN "Create"
    ELSE IF isStatic THEN "StaticCall"
    ELSE "Call"

(* ------------------- ExecuteTransaction: pure steps -------------------- *)
\* variant: clauses of a transaction are executed read-only
TxIsStaticTrue == TRUE

\* line 168: the isStatic argument ExecuteTransaction passes to rt.execute
TxIsStatic == FALSE

\* variant: an off-by-one gas check
IntrinsicExceedsLoose(intrinsic, gas) == intrinsic > gas + 1

\* line 144: intrinsicGas > gas
IntrinsicExceeds(intrinsic, gas) == intrinsic > gas

\* variant: the prepayment forgets the gas price
EnergyPrepayedNoPrice(gas, gasPrice) == gas

\* lines 151-152: energyPrepayed = gas * gasPrice (big.Int)
EnergyPrepayed(gas, gasPrice) == gas * gasPrice

\* variant: the intrinsic gas is not deducted
InitialLeftOverNoIntrinsic(gas, intrinsic) == gas

\* line 162: leftOverGas := gas - intrinsicGas
InitialLeftOver(gas, intrinsic) == Sub64(gas, intrinsic)

\* line 164: &Tx.Receipt{Outputs: make([]*Tx.Output, len(clauses))}
NewReceipt(n) ==
    [GasUsed |-> 0, GasPayer |-> ZeroAddr, Reverted |-> FALSE,
     Outputs |-> [k \in 1..n |-> Nil]]

\* variant: the gas used is taken to be what the clause left over
GasUsedByClauseLeft(left, outLeft) == outLeft

\* line 171: gasUsed := leftOverGas - vmOutput.LeftOverGas
GasUsedByClause(left, outLeft) == Sub64(left, outLeft)

\* variant: the refund is not capped
CappedRefundUncapped(refundGas, gasUsed) == refundGas

\* variant: the refund is capped to the used gas, not to half of it
CappedRefundFull(refundGas, gasUsed) == Min(refundGas, gasUsed)

\* lines 175-176: refund = min(vmOutput.RefundGas, gasUsed / 2)
CappedRefund(refundGas, gasUsed) == Min(refundGas, gasUsed \div 2)

\* variant: the refund is never added back
LeftOverAfterNoRefund(outLeft, refund) == outLeft

\* lines 172, 179: leftOverGas = vmOutput.LeftOverGas; leftOverGas += refund
LeftOverAfter(outLeft, refund) == Add64(outLeft, refund)

\* line 181: vmOutput.VMErr != nil
ClauseFailed(vmOutput) == vmOutput.VMErr

\* lines 190-194: &Tx.Output{Logs: logs}, each vm log cast to a Tx.Log
ClauseOutput(vmOutput) ==
    [Logs |-> [j \in 1..Len(vmOutput.Logs) |-> vmOutput.Logs[j]]]

\* variant: a failing clause leaves the outputs in place
ReceiptAfterClauseKeep(rec, idx, vmOutput) ==
    IF ClauseFailed(vmOutput)
    THEN rec
    ELSE [rec EXCEPT !.Outputs[idx + 1] = ClauseOutput(vmOutput)]

\* lines 181-195: what the clause does to the receipt
ReceiptAfterClause(rec, idx, vmOutput) ==
    IF ClauseFailed(vmOutput)
    THEN [rec EXCEPT !.Outputs = <<>>]
    ELSE [rec EXCEPT !.Outputs[idx + 1] = ClauseOutput(vmOutput)]

\* variant: a failing clause does not roll the world state back
StateAfterClauseNoRevert(touched, cps, h, vmOutput) == touched

\* lines 181-184: rt.state.RevertTo(clauseCheckpoint) when the clause failed
StateAfterClause(touched, cps, h, vmOutput) ==
    IF ClauseFailed(vmOutput) THEN RevertToState(cps, h) ELSE touched

\* variant: the loop does not break on a failing clause
LoopContinuesNoBreak(vmOutput, idx, n) == idx + 1 < n

\* lines 167, 186: the loop goes on while clauses remain and none has failed
LoopContinues(vmOutput, idx, n) == ~ClauseFailed(vmOutput) /\ idx + 1 < n

\* line 197: receipt.GasUsed = gas - leftOverGas
ReceiptGasUsed(gas, left) == Sub64(gas, left)

\* lines 200-201: energyToReturn = leftOverGas * gasPrice
EnergyToReturn(left, gasPrice) == left * gasPrice

\* variant: the credit overwrites the balance instead of adding to it
CreditedBalanceOverwrite(payerBalance, energyToReturn) == energyToReturn

\* line 205: payerBalance.Add(payerBalance, energyToReturn)
CreditedBalance(payerBalance, energyToReturn) == payerBalance + energyToReturn

(* --------------------------- ConvertReceipt ---------------------------- *)
HexDigits == <<"0", "1", "2", "3", "4", "5", "6", "7",
               "8", "9", "a", "b", "c", "d", "e", "f">>

\* hexutil.Encode: "0x" followed by two lower-case hex digits per byte
RECURSIVE HexOf(_)
HexOf(bytes) ==
    IF Len(bytes) = 0 THEN <<>>
    ELSE <<HexDigits[(bytes[1] \div 16) + 1], HexDigits[(bytes[1] % 16) + 1]>>
           \o HexOf(Tail(bytes))

Encode(bytes) == <<"0", "x">> \o HexOf(bytes)

\* thor.Hash{}: the value of a topic slot that was allocated and never set
ZeroHash == "0x00"

\* a nil pointer was dereferenced
Panic == [panic |-> TRUE]

\* variant: the topics are allocated and never copied
ConvertLogNoTopics(log) ==
    [Address |-> log.Address,
     Topics  |-> [k \in 1..Len(log.Topics) |-> ZeroHash],
     Data    |-> Encode(log.Data)]

\* part_000 lines 49-57: one ReceiptLog
ConvertLog(log) ==
    [Address |-> log.Address,
     Topics  |-> [k \in 1..Len(log.Topics) |-> log.Topics[k]],
     Data    |-> Encode(log.Data)]

\* part_000 lines 47-59: one Output
ConvertOutput(output) == [Logs |-> [j \in 1..Len(output.Logs) |-> ConvertLog(output.Logs[j])]]

\* part_000 lines 39-62; output.Logs on a nil *tx.Output panics
ConvertReceipt(rece) ==
    IF \E k \in 1..Len(rece.Outputs) : rece.Outputs[k] = Nil
    THEN Panic
    ELSE [GasUsed  |-> rece.GasUsed,
          GasPayer |-> rece.GasPayer,
          Reverted |-> rece.Reverted,
          Outputs  |-> [k \in 1..Len(rece.Outputs) |-> ConvertOutput(rece.Outputs[k])]]

\* variant: the checkpoint holds the world state as it was before the pre-debit
StateToCheckpointAtEntry(current, atEntry) == atEntry

\* lines 154-160: the checkpoint is taken on the state the pre-debit left
StateToCheckpoint(current, atEntry) == current

(* ------------------------------- state --------------------------------- *)
VARIABLES
    pc,               \* position inside ExecuteTransaction
    tx,               \* the transaction being executed
    state,            \* rt.state: the world state
    checkpoints,      \* the world state's checkpoint stack
    origin, intrinsicGas, energyPayer, clauseCheckpoint, leftOverGas, i,
    receipt, vmOutputs, err,   \* the named results
    trace,            \* history: one entry per rt.execute call
    callLog,          \* history: calls made to the collaborators, in order
    state0,           \* history: world state when ExecuteTransaction was entered
    stateAtCheckpoint,\* history: world state when the checkpoint was taken
    stateAtSettle,    \* history: world state when settlement started
    wrapped,          \* history: some uint64 operation wrapped around
    fnIn, fnOut,      \* argument and result of a helper called on its own
    callOutput,       \* the *vm.Output returned by rt.Call or rt.StaticCall
    dispatches,       \* history: one entry per rt.execute call, fatal ones included
    converted         \* the *types.Receipt ConvertReceipt made of the receipt

vars == <<pc, tx, state, checkpoints, origin, intrinsicGas, energyPayer,
          clauseCheckpoint, leftOverGas, i, receipt, vmOutputs, err,
          trace, callLog, state0, stateAtCheckpoint, stateAtSettle, wrapped,
          fnIn, fnOut, callOutput, dispatches, converted>>

helper == <<fnIn, fnOut, converted>>

locals == <<origin, intrinsicGas, energyPayer, clauseCheckpoint, leftOverGas, i>>
history == <<trace, callLog, state0, stateAtCheckpoint, stateAtSettle, wrapped>>

EnergyLevels == {1, MaxEnergy}

\* the world states a Runtime is constructed on
InitialStates ==
    {st \in [energy : [Accounts -> EnergyLevels], store : [Keys -> {0}]] :
         st.energy["A"] # st.energy["B"]}

\* everything but the world state and the helper's argument
InitRest ==
    /\ pc = "idle"
    /\ tx = Nil
    /\ checkpoints = <<>>
    /\ origin = ZeroAddr
    /\ intrinsicGas = 0
    /\ energyPayer = ZeroAddr
    /\ clauseCheckpoint = 0
    /\ leftOverGas = 0
    /\ i = 0
    /\ receipt = Nil
    /\ vmOutputs = Nil
    /\ err = "nil"
    /\ trace = <<>>
    /\ callLog = <<>>
    /\ state0 = Nil
    /\ stateAtCheckpoint = Nil
    /\ stateAtSettle = Nil
    /\ wrapped = FALSE
    /\ fnOut = NotCalled
    /\ callOutput = Nil
    /\ dispatches = <<>>
    /\ converted = Nil

Init ==
    /\ state \in InitialStates
    /\ fnIn = <<>>
    /\ InitRest

\* lines 133-149: the call and its prechecks
Precheck(t) ==
    /\ pc = "idle"
    /\ tx' = t
    /\ state0' = state
    /\ IF ~t.Signer.ok
       THEN /\ err' = "signer"
            /\ pc' = "rejected"
            /\ UNCHANGED <<origin, intrinsicGas>>
       ELSE IF ~t.IntrinsicGas.ok
       THEN /\ err' = "intrinsic"
            /\ pc' = "rejected"
            /\ origin' = t.Signer.origin
            /\ UNCHANGED intrinsicGas
       ELSE IF IntrinsicExceeds(t.IntrinsicGas.gas, t.Gas)
       THEN /\ err' = "intrinsic gas exceeds provided gas"
            /\ pc' = "rejected"
            /\ origin' = t.Signer.origin
            /\ intrinsicGas' = t.IntrinsicGas.gas
       ELSE /\ err' = "nil"
            /\ pc' = "consume"
            /\ origin' = t.Signer.origin
            /\ intrinsicGas' = t.IntrinsicGas.gas
    /\ UNCHANGED <<state, checkpoints, energyPayer, clauseCheckpoint, leftOverGas, i,
                   receipt, vmOutputs, trace, callLog, stateAtCheckpoint,
                   stateAtSettle, wrapped, helper, callOutput, dispatches>>

\* lines 151-157: the energy pre-debit
EnergyConsume ==
    /\ pc = "consume"
    /\ LET r == Consume(state, origin, commonTo(tx.Clauses),
                        EnergyPrepayed(tx.Gas, tx.GasPrice))
       IN  /\ state' = r.st
           /\ energyPayer' = r.payer
           /\ callLog' = Append(callLog, "Consume")
           /\ IF ~r.ok
              THEN /\ err' = "insufficient energy"
                   /\ pc' = "rejected"
              ELSE /\ err' = "nil"
                   /\ pc' = "checkpoint"
    /\ UNCHANGED <<tx, checkpoints, origin, intrinsicGas, clauseCheckpoint, leftOverGas,
                   i, receipt, vmOutputs, trace, state0, stateAtCheckpoint,
                   stateAtSettle, wrapped, helper, callOutput, dispatches>>

\* lines 159-165: the checkpoint and the initial values of the loop
Checkpoint ==
    /\ pc = "checkpoint"
    /\ checkpoints' = NewCheckpointStack(checkpoints, StateToCheckpoint(state, state0))
    /\ clauseCheckpoint' = Len(checkpoints) + 1
    /\ stateAtCheckpoint' = StateToCheckpoint(state, state0)
    /\ callLog' = Append(callLog, "NewCheckpoint")
    /\ leftOverGas' = InitialLeftOver(tx.Gas, intrinsicGas)
    /\ wrapped' = (wrapped \/ tx.Gas - intrinsicGas < 0)
    /\ receipt' = NewReceipt(Len(tx.Clauses))
    /\ vmOutputs' = [k \in 1..Len(tx.Clauses) |-> Nil]
    /\ i' = 0
    /\ pc' = IF Len(tx.Clauses) = 0 THEN "settle" ELSE "loop"
    /\ UNCHANGED <<tx, state, origin, intrinsicGas, energyPayer, err, trace, state0,
                   stateAtSettle, helper, callOutput, dispatches>>

\* variant: the failing clause's raw output is dropped
VMOutputsAfterNilOnFail(outs, idx, vmOutput) ==
    IF ClauseFailed(vmOutput) THEN outs ELSE [outs EXCEPT ![idx + 1] = vmOutput]

\* line 169: vmOutputs[i] = vmOutput
VMOutputsAfter(outs, idx, vmOutput) == [outs EXCEPT ![idx + 1] = vmOutput]

\* lines 167-195: one iteration of the clause loop; the interpreter's effect on
\* the world state and its output are its own choice
ExecuteClause ==
    /\ pc = "loop"
    /\ i < Len(tx.Clauses)
    /\ LET clause == tx.Clauses[i + 1]
           entry  == execute(clause, TxIsStatic)
           disp   == [via |-> "ExecuteTransaction", to |-> clause.To,
                      static |-> TxIsStatic, entry |-> entry]
       IN  IF entry = "panic"
           THEN /\ pc' = "panic"
                /\ dispatches' = Append(dispatches, disp)
                /\ UNCHANGED <<vmOutputs, leftOverGas, wrapped, state, checkpoints,
                               receipt, trace, callLog, i>>
           ELSE \E eff \in Effects(clause) : \E vmOutput \in VMOutputs(leftOverGas, eff) :
                LET touched  == ApplyEffect(state, eff, origin, i)
                    gasUsed  == GasUsedByClause(leftOverGas, vmOutput.LeftOverGas)
                    refund   == CappedRefund(vmOutput.RefundGas, gasUsed)
                    failed   == ClauseFailed(vmOutput)
                IN  /\ dispatches' = Append(dispatches, disp)
                    /\ vmOutputs' = VMOutputsAfter(vmOutputs, i, vmOutput)
                    /\ leftOverGas' = LeftOverAfter(vmOutput.LeftOverGas, refund)
                    /\ wrapped' = (wrapped \/ leftOverGas - vmOutput.LeftOverGas < 0
                                           \/ vmOutput.LeftOverGas + refund >= WordMod)
                    /\ state' = StateAfterClause(touched, checkpoints, clauseCheckpoint,
                                                 vmOutput)
                    /\ checkpoints' = IF failed
                                      THEN RevertToStack(checkpoints, clauseCheckpoint)
                                      ELSE checkpoints
                    /\ receipt' = ReceiptAfterClause(receipt, i, vmOutput)
                    /\ trace' = Append(trace,
                           [index |-> i, gas |-> leftOverGas, entry |-> entry,
                            static |-> TxIsStatic, gasUsed |-> gasUsed, refund |-> refund,
                            output |-> vmOutput, touched |-> touched,
                            revertTo |-> IF failed THEN clauseCheckpoint ELSE 0])
                    /\ callLog' = callLog \o <<entry>>
                                    \o (IF failed THEN <<"RevertTo">> ELSE <<>>)
                    /\ IF LoopContinues(vmOutput, i, Len(tx.Clauses))
                       THEN /\ i' = i + 1
                            /\ pc' = "loop"
                       ELSE /\ i' = i
                            /\ pc' = "settle"
    /\ UNCHANGED <<tx, origin, intrinsicGas, energyPayer, clauseCheckpoint, err, state0,
                   stateAtCheckpoint, stateAtSettle, helper, callOutput>>

\* lines 197-207: settlement and return
Settle ==
    /\ pc = "settle"
    /\ stateAtSettle' = state
    /\ receipt' = [receipt EXCEPT !.GasUsed = ReceiptGasUsed(tx.Gas, leftOverGas)]
    /\ wrapped' = (wrapped \/ tx.Gas - leftOverGas < 0)
    /\ LET energyToReturn == EnergyToReturn(leftOverGas, tx.GasPrice)
           payerBalance   == GetBalance(state, energyPayer)
       IN  state' = SetBalance(state, energyPayer,
                               CreditedBalance(payerBalance, energyToReturn))
    /\ callLog' = callLog \o <<"GetBalance", "SetBalance">>
    /\ err' = "nil"
    /\ pc' = "done"
    /\ UNCHANGED <<tx, checkpoints, origin, intrinsicGas, energyPayer, clauseCheckpoint,
                   leftOverGas, i, vmOutputs, trace, state0, stateAtCheckpoint, helper,
                   callOutput, dispatches>>

\* lines 59-105 as reached from rt.StaticCall and rt.Call: one clause is
\* dispatched with the given gas; a read-only call leaves the world state alone
ExecuteAlone(via, clause, gas, isStatic) ==
    /\ pc = "idle"
    /\ LET entry == execute(clause, isStatic)
           disp  == [via |-> via, to |-> clause.To, static |-> isStatic, entry |-> entry]
       IN  /\ dispatches' = Append(dispatches, disp)
           /\ IF entry = "panic"
              THEN /\ pc' = "panic"
                   /\ UNCHANGED <<state, callOutput, callLog>>
              ELSE /\ pc' = "returned"
                   /\ callLog' = Append(callLog, entry)
                   /\ \E eff \in (IF isStatic THEN {"none"} ELSE Effects(clause)) :
                      \E vmOutput \in VMOutputs(gas, eff) :
                         /\ state' = ApplyEffect(state, eff, "A", 0)
                         /\ callOutput' = vmOutput
    /\ UNCHANGED <<tx, checkpoints, origin, intrinsicGas, energyPayer, clauseCheckpoint,
                   leftOverGas, i, receipt, vmOutputs, err, trace, state0,
                   stateAtCheckpoint, stateAtSettle, wrapped, helper>>

\* part_000 lines 38-62: the returned receipt is converted for presentation
Convert ==
    /\ pc = "done"
    /\ converted = Nil
    /\ converted' = ConvertReceipt(receipt)
    /\ UNCHANGED <<pc, tx, state, checkpoints, origin, intrinsicGas, energyPayer,
                   clauseCheckpoint, leftOverGas, i, receipt, vmOutputs, err,
                   trace, callLog, state0, stateAtCheckpoint, stateAtSettle, wrapped,
                   fnIn, fnOut, callOutput, dispatches>>

\* lines 107-117
StaticCall(clause, gas) == ExecuteAlone("StaticCall", clause, gas, TRUE)

\* lines 119-129
Call(clause, gas) == ExecuteAlone("Call", clause, gas, FALSE)

Next ==
    \/ \E t \in Transactions : Precheck(t)
    \/ EnergyConsume
    \/ Checkpoint
    \/ ExecuteClause
    \/ Settle
    \/ Convert
    \/ \E clause \in Clauses : \E gas \in 0..MaxGas : StaticCall(clause, gas)
    \/ \E clause \in Clauses : \E gas \in 0..MaxGas : Call(clause, gas)

Spec == Init /\ [][Next]_vars

\* ExecuteTransaction is straight-line synchronous code: a started call keeps running
FairSpec == Spec /\ WF_vars(Next)

(* --------------------- commonTo called on its own ---------------------- *)
\* clause lists with every shape of recipient: none, "A", "B"
HintClauseLists == SeqsUpTo([To : {NoTo} \cup Accounts], MaxHintClauses)

CommonToInit ==
    /\ state \in {st \in InitialStates : st.energy["A"] = 1}
    /\ fnIn \in HintClauseLists
    /\ InitRest

\* lines 212-232: one call of commonTo
CommonToCall ==
    /\ fnOut = NotCalled
    /\ fnOut' = commonTo(fnIn)
    /\ UNCHANGED <<pc, tx, state, checkpoints, origin, intrinsicGas, energyPayer,
                   clauseCheckpoint, leftOverGas, i, receipt, vmOutputs, err,
                   trace, callLog, state0, stateAtCheckpoint, stateAtSettle, wrapped,
                   fnIn, callOutput, dispatches, converted>>

CommonToNext == CommonToCall

CommonToSpec == CommonToInit /\ [][CommonToNext]_vars

TypeOK ==
    /\ pc \in {"idle", "rejected", "consume", "checkpoint", "loop", "settle", "done",
              "returned", "panic"}
    /\ leftOverGas \in 0..(WordMod - 1)
    /\ i \in 0..MaxClauses

(* ------------------------------ properties ----------------------------- *)
\* some executed clause's interpreter output carries an error
SomeClauseFailed == \E k \in 1..Len(trace) : trace[k].output.VMErr

\* gas charged to the clauses executed so far: used minus refunded, summed
RECURSIVE ChargedUpTo(_)
ChargedUpTo(k) ==
    IF k = 0 THEN 0
    ELSE ChargedUpTo(k - 1)
         + (trace[k].gas - trace[k].output.LeftOverGas)
         - Min(trace[k].output.RefundGas, (trace[k].gas - trace[k].output.LeftOverGas) \div 2)

Count(seq, e) == Cardinality({k \in 1..Len(seq) : seq[k] = e})

\* C1: atomic rollback - when a clause's interpreter output carries an error,
\* the world state at the start of settlement is exactly the state captured by
\* the checkpoint, for every key (energy balances and storage alike).
C1_AtomicRollback ==
    (pc = "settle" /\ SomeClauseFailed) =>
        /\ \A a \in Accounts : state.energy[a] = stateAtCheckpoint.energy[a]
        /\ \A key \in Keys : state.store[key] = stateAtCheckpoint.store[key]

\* a second clause failed after both clauses had written to the world state
C1_Witness ==
    /\ pc = "settle"
    /\ Len(trace) = 2
    /\ trace[2].output.VMErr
    /\ trace[1].touched # stateAtCheckpoint
    /\ trace[2].touched # trace[1].touched
    /\ state = stateAtCheckpoint

\* C2: the returned receipt has reverted = true if and only if some executed
\* clause's interpreter output carried an error.
C2_RevertedIffFailed ==
    pc = "done" => (receipt.Reverted <=> SomeClauseFailed)

\* C3: the returned receipt records as gas payer the address the energy
\* contract's consume returned.
C3_GasPayerRecorded ==
    pc = "done" => receipt.GasPayer = energyPayer

\* C4: receipt outputs shape - after a failing clause the outputs are empty;
\* otherwise there is one non-nil Output per clause, in clause order, and
\* Output k carries exactly the logs clause k emitted, in emitted order.
C4_OutputsShape ==
    pc = "done" =>
        IF SomeClauseFailed
        THEN Len(receipt.Outputs) = 0
        ELSE /\ Len(receipt.Outputs) = Len(tx.Clauses)
             /\ Len(trace) = Len(tx.Clauses)
             /\ \A k \in 1..Len(tx.Clauses) :
                   /\ receipt.Outputs[k] # Nil
                   /\ trace[k].index = k - 1
                   /\ Len(receipt.Outputs[k].Logs) = Len(trace[k].output.Logs)
                   /\ \A j \in 1..Len(trace[k].output.Logs) :
                         receipt.Outputs[k].Logs[j] = trace[k].output.Logs[j]

\* two clauses succeeded, emitting different logs, one of them two logs
C4_Witness ==
    /\ pc = "done"
    /\ ~SomeClauseFailed
    /\ Len(tx.Clauses) = 2
    /\ receipt.Outputs[1].Logs = <<Log1, Log2>>
    /\ receipt.Outputs[2].Logs = <<Log2>>

\* C5: gas conservation - GasUsed = gasLimit - finalLeftoverGas as integers,
\* 0 <= GasUsed <= gasLimit, and no uint64 operation on the running leftover
\* gas wrapped around.
C5_GasConservation ==
    /\ ~wrapped
    /\ pc \in {"loop", "settle", "done"} => leftOverGas <= tx.Gas
    /\ pc = "done" =>
          /\ receipt.GasUsed = tx.Gas - leftOverGas
          /\ 0 <= receipt.GasUsed
          /\ receipt.GasUsed <= tx.Gas

\* a transaction whose clause got a refund finished with gas left over
C5_Witness ==
    /\ pc = "done"
    /\ \E k \in 1..Len(trace) : trace[k].refund > 0
    /\ leftOverGas > 0
    /\ receipt.GasUsed > intrinsicGas

\* C6: refund cap - for every executed clause, failing or not, the refund added
\* to the leftover gas is min(refundGas, floor(gasUsedThisClause / 2)) with
\* gasUsedThisClause = leftoverGasBefore - output.leftoverGas.
C6_RefundCap ==
    \A k \in 1..Len(trace) :
        LET used  == trace[k].gas - trace[k].output.LeftOverGas
            after == IF k < Len(trace) THEN trace[k + 1].gas ELSE leftOverGas
        IN  /\ after - trace[k].output.LeftOverGas = Min(trace[k].output.RefundGas, used \div 2)
            /\ 2 * (after - trace[k].output.LeftOverGas) <= used

\* a failing clause proposed a refund that the cap cut down
C6_Witness ==
    /\ pc = "settle"
    /\ Len(trace) >= 1
    /\ LET last == trace[Len(trace)]
       IN  /\ last.output.VMErr
           /\ last.output.RefundGas > last.refund
           /\ last.gas - last.output.LeftOverGas > 0

\* C7 as stated: the payer's balance before minus its balance after equals
\* GasUsed x gasPrice, whatever the clauses wrote to the world state.
C7_EnergyConservationAsStated ==
    pc = "done" =>
        state0.energy[energyPayer] - state.energy[energyPayer]
            = receipt.GasUsed * tx.GasPrice

\* C7 amended: the pre-debit is gasLimit x gasPrice, the final credit is
\* finalLeftoverGas x gasPrice, and the payer's balance before minus after
\* equals GasUsed x gasPrice minus the net change the committed clause writes
\* made to the payer's balance between checkpoint and settlement; that change
\* is zero when a clause failed.
C7_EnergyConservation ==
    pc = "done" =>
        LET p     == energyPayer
            delta == stateAtSettle.energy[p] - stateAtCheckpoint.energy[p]
        IN  /\ state0.energy[p] - stateAtCheckpoint.energy[p] = tx.Gas * tx.GasPrice
            /\ state.energy[p] - stateAtSettle.energy[p] = leftOverGas * tx.GasPrice
            /\ state0.energy[p] - state.energy[p] = receipt.GasUsed * tx.GasPrice - delta
            /\ SomeClauseFailed => delta = 0

\* a clause moved energy out of the payer's account and a later clause failed
C7_Witness ==
    /\ pc = "done"
    /\ Len(trace) = 2
    /\ trace[2].output.VMErr
    /\ trace[1].touched.energy[energyPayer] # stateAtCheckpoint.energy[energyPayer]
    /\ receipt.GasUsed > 0
    /\ state0.energy[energyPayer] - state.energy[energyPayer] = receipt.GasUsed * tx.GasPrice

\* the energy debit of the transaction reports failure
DebitFails ==
    ~Consume(state0, tx.Signer.origin, commonTo(tx.Clauses), tx.Gas * tx.GasPrice).ok

\* C8: pre-execution rejection - a failing signature recovery, a failing
\* intrinsic-gas computation, intrinsic gas above the gas limit or a failing
\* energy debit makes ExecuteTransaction return an error with no receipt and no
\* outputs, having taken no checkpoint, executed no clause and credited no
\* energy; for the first three causes the debit is not attempted and the world
\* state is unchanged.
C8_PreExecutionRejection ==
    tx # Nil =>
        LET early == \/ ~tx.Signer.ok
                     \/ ~tx.IntrinsicGas.ok
                     \/ tx.IntrinsicGas.gas > tx.Gas
        IN  /\ early => /\ pc = "rejected"
                        /\ Count(callLog, "Consume") = 0
                        /\ state = state0
            /\ (~early /\ DebitFails /\ pc # "consume") => pc = "rejected"
            /\ pc = "rejected" =>
                  /\ early \/ DebitFails
                  /\ err # "nil"
                  /\ receipt = Nil
                  /\ vmOutputs = Nil
                  /\ checkpoints = <<>>
                  /\ Count(callLog, "NewCheckpoint") = 0
                  /\ trace = <<>>
                  /\ Count(callLog, "SetBalance") = 0

\* a transaction was rejected because the energy debit failed
C8_Witness ==
    /\ pc = "rejected"
    /\ err = "insufficient energy"
    /\ callLog = <<"Consume">>
    /\ tx.Gas * tx.GasPrice > state0.energy[origin]

\* C9: stop on first failure - clauses reach the interpreter one at a time in
\* strictly increasing index order starting at 0, none after a clause whose
\* output carried an error, and the gas charged is the intrinsic gas plus what
\* the executed clauses 0..k used, less their refunds.
C9_StopOnFirstFailure ==
    /\ \A k \in 1..Len(trace) :
          /\ trace[k].index = k - 1
          /\ \A j \in 1..(k - 1) : ~trace[j].output.VMErr
    /\ Len(trace) <= Len(IF tx = Nil THEN <<>> ELSE tx.Clauses)
    /\ pc = "done" =>
          /\ receipt.GasUsed = intrinsicGas + ChargedUpTo(Len(trace))
          /\ ~SomeClauseFailed => Len(trace) = Len(tx.Clauses)

\* the first of two clauses failed and the second never ran
C9_Witness ==
    /\ pc = "done"
    /\ Len(tx.Clauses) = 2
    /\ Len(trace) = 1
    /\ trace[1].output.VMErr
    /\ vmOutputs[2] = Nil
    /\ receipt.GasUsed > intrinsicGas

\* settlement has credited the payer exactly once and a receipt is returned
Settled ==
    /\ pc = "done"
    /\ err = "nil"
    /\ receipt # Nil
    /\ Count(callLog, "SetBalance") = 1
    /\ state.energy[energyPayer] = stateAtSettle.energy[energyPayer] + leftOverGas * tx.GasPrice
    /\ \A a \in Accounts \ {energyPayer} : state.energy[a] = stateAtSettle.energy[a]
    /\ state.store = stateAtSettle.store

\* C10: unconditional settlement - every transaction whose energy debit
\* succeeded eventually reaches settlement, credits exactly
\* leftoverGas x gasPrice to the payer the debit returned, exactly once, reverted
\* or not, and then returns a receipt.
C10_UnconditionalSettlement ==
    /\ [](pc = "done" => Settled)
    /\ [](pc \in {"checkpoint", "loop", "settle"} => Count(callLog, "SetBalance") = 0)
    /\ (pc = "checkpoint") ~> Settled

\* a reverted transaction was settled with gas left over
C10_Witness ==
    /\ Settled
    /\ SomeClauseFailed
    /\ leftOverGas > 0
    /\ state.energy[energyPayer] > stateAtSettle.energy[energyPayer]

\* C11: common-recipient detection - commonTo returns an address a if and only
\* if the clause list is non-empty and every clause has recipient a; it returns
\* the empty address when there are no clauses, when some clause has no
\* recipient, and when two clauses have different recipients.
C11_CommonRecipient ==
    fnOut # NotCalled =>
        /\ \A a \in Accounts :
              fnOut = a <=> (Len(fnIn) > 0 /\ \A k \in 1..Len(fnIn) : fnIn[k].To = a)
        /\ fnOut \in Accounts \cup {ZeroAddr}
        /\ Len(fnIn) = 0 => fnOut = ZeroAddr
        /\ (\E k \in 1..Len(fnIn) : fnIn[k].To = NoTo) => fnOut = ZeroAddr
        /\ (\E k, m \in 1..Len(fnIn) : fnIn[k].To # fnIn[m].To) => fnOut = ZeroAddr

\* three clauses to the same recipient gave that recipient as the hint
C11_Witness ==
    /\ fnOut = "A"
    /\ Len(fnIn) = 3
    /\ \A k \in 1..3 : fnIn[k].To = "A"

\* the dispatches that reached the interpreter, and the interpreter calls made
NonFatal == SelectSeq(dispatches, LAMBDA d : d.entry # "panic")
InterpreterCalls == SelectSeq(callLog, LAMBDA e : e \in {"Create", "StaticCall", "Call"})

\* C13: the fatal static-call-without-recipient case is never reached by
\* ExecuteTransaction, whatever the clauses (creations included): it always
\* dispatches with static = false; the fatal case occurs only under StaticCall
\* given a clause with no recipient.
C13_FatalOnlyViaStaticCall ==
    /\ \A k \in 1..Len(dispatches) :
          LET d == dispatches[k]
          IN  /\ d.via = "ExecuteTransaction" => (~d.static /\ d.entry # "panic")
              /\ d.entry = "panic" => (d.via = "StaticCall" /\ d.to = NoTo)
    /\ pc = "panic" =>
          /\ tx = Nil
          /\ Len(dispatches) = 1
          /\ dispatches[1].via = "StaticCall"

\* a transaction with a contract-creation clause ran to its end
C13_Witness ==
    /\ pc = "done"
    /\ \E k \in 1..Len(dispatches) :
          /\ dispatches[k].via = "ExecuteTransaction"
          /\ dispatches[k].to = NoTo
          /\ dispatches[k].entry = "Create"

\* C14: zero clauses - no clause is executed and nothing is rolled back, the
\* receipt has an empty outputs list and reverted = false, GasUsed is the
\* intrinsic gas and the payer is credited (gasLimit - intrinsicGas) x gasPrice.
C14_ZeroClauses ==
    (pc = "done" /\ Len(tx.Clauses) = 0) =>
        /\ trace = <<>>
        /\ dispatches = <<>>
        /\ Count(callLog, "RevertTo") = 0
        /\ Len(receipt.Outputs) = 0
        /\ receipt.Reverted = FALSE
        /\ receipt.GasUsed = tx.IntrinsicGas.gas
        /\ state.energy[energyPayer] - stateAtCheckpoint.energy[energyPayer]
              = (tx.Gas - tx.IntrinsicGas.gas) * tx.GasPrice
        /\ state.store = state0.store

\* a clause-less transaction with non-zero intrinsic gas was settled with a credit
C14_Witness ==
    /\ pc = "done"
    /\ Len(tx.Clauses) = 0
    /\ tx.IntrinsicGas.gas > 0
    /\ tx.Gas > tx.IntrinsicGas.gas
    /\ state.energy[energyPayer] > stateAtCheckpoint.energy[energyPayer]

\* C16: gas threading - clause 0 runs with gasLimit - intrinsicGas, clause k
\* with clause k-1's leftover gas plus its capped refund; every clause runs
\* with static = false and its own position as clause index.
C16_GasThreading ==
    \A k \in 1..Len(trace) :
        /\ trace[k].index = k - 1
        /\ trace[k].static = FALSE
        /\ trace[k].entry = IF tx.Clauses[k].To = NoTo THEN "Create" ELSE "Call"
        /\ k = 1 => trace[k].gas = tx.Gas - tx.IntrinsicGas.gas
        /\ k > 1 =>
              LET prev == trace[k - 1]
                  used == prev.gas - prev.output.LeftOverGas
              IN  trace[k].gas = prev.output.LeftOverGas
                                   + Min(prev.output.RefundGas, used \div 2)

\* a second clause ran on the first clause's leftover plus a non-zero refund
C16_Witness ==
    /\ Len(trace) = 2
    /\ trace[1].refund > 0
    /\ trace[2].gas = trace[1].output.LeftOverGas + trace[1].refund
    /\ trace[1].gas = tx.Gas - tx.IntrinsicGas.gas

\* C17: checkpoint ordering - one checkpoint per transaction, taken after the
\* successful pre-debit and before clause 0; a rollback targets that checkpoint,
\* keeps the pre-debit of gasLimit x gasPrice, and happens at most once.
C17_CheckpointOrdering ==
    /\ Count(callLog, "NewCheckpoint") <= 1
    /\ Count(callLog, "RevertTo") <= 1
    /\ pc \in {"loop", "settle", "done"} =>
          /\ Len(callLog) >= 2
          /\ callLog[1] = "Consume"
          /\ callLog[2] = "NewCheckpoint"
          /\ clauseCheckpoint = 1
          /\ stateAtCheckpoint.energy[energyPayer]
                = state0.energy[energyPayer] - tx.Gas * tx.GasPrice
    /\ Len(trace) > 0 => Count(callLog, "NewCheckpoint") = 1
    /\ \A k \in 1..Len(trace) :
          /\ trace[k].output.VMErr <=> trace[k].revertTo = clauseCheckpoint
          /\ ~trace[k].output.VMErr <=> trace[k].revertTo = 0
    /\ (pc = "settle" /\ SomeClauseFailed) =>
          /\ Count(callLog, "RevertTo") = 1
          /\ state.energy[energyPayer]
                = state0.energy[energyPayer] - tx.Gas * tx.GasPrice

\* a rollback happened and the payer is still debited a non-zero prepayment
C17_Witness ==
    /\ pc = "settle"
    /\ Count(callLog, "RevertTo") = 1
    /\ tx.Gas * tx.GasPrice > 0
    /\ trace[Len(trace)].touched.energy[energyPayer] # state.energy[energyPayer]
    /\ state.energy[energyPayer] = state0.energy[energyPayer] - tx.Gas * tx.GasPrice

\* which entry point the decision table gives
Routed(to, static) ==
    CASE to = NoTo /\ ~static -> "Create"
      [] to # NoTo /\ static  -> "StaticCall"
      [] to # NoTo /\ ~static -> "Call"
      [] OTHER                -> "panic"

\* C18: clause dispatch - no recipient and not static goes to create, recipient
\* and static to staticCall, recipient and not static to call, no recipient and
\* static is fatal before the interpreter is invoked; every non-fatal dispatch
\* invokes exactly one interpreter entry point.
C18_ClauseDispatch ==
    /\ \A k \in 1..Len(dispatches) :
          dispatches[k].entry = Routed(dispatches[k].to, dispatches[k].static)
    /\ Len(InterpreterCalls) = Len(NonFatal)
    /\ \A k \in 1..Len(NonFatal) : InterpreterCalls[k] = NonFatal[k].entry

\* a static call without recipient was fatal and the interpreter never ran
C18_Witness ==
    /\ pc = "panic"
    /\ dispatches = <<[via |-> "StaticCall", to |-> NoTo, static |-> TRUE,
                        entry |-> "panic"]>>
    /\ callLog = <<>>

\* C19: the running leftover gas never increases across a clause, so
\* GasUsed >= intrinsicGas, with equality only if no clause consumed gas.
C19_LeftOverNeverIncreases ==
    /\ \A k \in 1..Len(trace) :
          LET after == IF k < Len(trace) THEN trace[k + 1].gas ELSE leftOverGas
          IN  after <= trace[k].gas
    /\ pc = "done" =>
          /\ receipt.GasUsed >= tx.IntrinsicGas.gas
          /\ receipt.GasUsed = tx.IntrinsicGas.gas =>
                \A k \in 1..Len(trace) : trace[k].output.LeftOverGas = trace[k].gas

\* a transaction whose clauses consumed gas and got a refund was charged more
\* than its intrinsic gas
C19_Witness ==
    /\ pc = "done"
    /\ Len(trace) = 2
    /\ trace[1].refund > 0
    /\ trace[2].output.LeftOverGas = trace[2].gas
    /\ receipt.GasUsed > tx.IntrinsicGas.gas

HexValue(c) == CHOOSE n \in 0..15 : HexDigits[n + 1] = c
Decode(chars) ==
    [k \in 1..((Len(chars) - 2) \div 2) |->
        16 * HexValue(chars[2 * k + 1]) + HexValue(chars[2 * k + 2])]

\* C15: ConvertReceipt is a pure projection of every receipt ExecuteTransaction
\* returns - same gasUsed, gasPayer and reverted, same number of outputs, and
\* per output the same number of logs with the same address, the same topics in
\* order and the same data bytes (as "0x" hex); a reverted receipt converts to an
\* empty outputs list without faulting.
C15_ConvertReceiptProjection ==
    converted # Nil =>
        /\ converted # Panic
        /\ converted.GasUsed = receipt.GasUsed
        /\ converted.GasPayer = receipt.GasPayer
        /\ converted.Reverted = receipt.Reverted
        /\ Len(converted.Outputs) = Len(receipt.Outputs)
        /\ SomeClauseFailed => Len(converted.Outputs) = 0
        /\ \A k \in 1..Len(receipt.Outputs) :
              /\ Len(converted.Outputs[k].Logs) = Len(receipt.Outputs[k].Logs)
              /\ \A j \in 1..Len(receipt.Outputs[k].Logs) :
                    LET log == receipt.Outputs[k].Logs[j]
                        out == converted.Outputs[k].Logs[j]
                    IN  /\ out.Address = log.Address
                        /\ Len(out.Topics) = Len(log.Topics)
                        /\ \A t \in 1..Len(log.Topics) : out.Topics[t] = log.Topics[t]
                        /\ SubSeq(out.Data, 1, 2) = <<"0", "x">>
                        /\ Len(out.Data) = 2 + 2 * Len(log.Data)
                        /\ Decode(out.Data) = log.Data

\* a receipt whose first output has a log with two topics and two data bytes
\* was converted
C15_Witness ==
    /\ converted # Nil
    /\ Len(converted.Outputs) = 2
    /\ converted.Outputs[1].Logs[1].Topics = <<"t1", "t2">>
    /\ converted.Outputs[1].Logs[1].Data = <<"0", "x", "0", "1", "a", "b">>
    /\ converted.Outputs[1].Logs[2].Data = <<"0", "x">>

====
